---- MODULE Spec2Model ----
(***************************************************************************)
(* Drone flight data generator (drone_flight_generator.py): the profile    *)
(* evaluators, the four path generators, generate_entries and              *)
(* build_config.                                                           *)
(*                                                                         *)
(* Numbers.  A Python float is modelled by the exact rational it denotes:  *)
(* a pair <<n, d>> in lowest terms with d > 0.  Arithmetic is exact, so    *)
(* the rounding error of IEEE-754 doubles is outside the model; round(),   *)
(* int(), % and // are modelled by what they do on the exact value.        *)
(* One rounding is kept, because it decides whether the result of % stays  *)
(* below the modulus: a float too small to change a sum is absorbed by it  *)
(* (NegTiny below).                                                        *)
(* math.sin, math.cos and math.atan2 are modelled by rational              *)
(* approximations (to three decimals) that keep the special values, the    *)
(* range, the symmetry and the periodicity of the library functions.       *)
(***************************************************************************)
EXTENDS Integers, Sequences, FiniteSets, TLC

(***************************************************************************)
(* Exact rational arithmetic                                               *)
(***************************************************************************)
Abs(a) == IF a < 0 THEN -a ELSE a

RECURSIVE GCD(_, _)
GCD(a, b) == IF b = 0 THEN a ELSE GCD(b, a % b)

\* The rational n/d (d # 0) in lowest terms with a positive denominator.
QNorm(n, d) ==
    LET g == GCD(Abs(n), Abs(d))
        s == IF d < 0 THEN -1 ELSE 1
    IN  <<(s * n) \div g, (s * d) \div g>>

Q(n) == <<n, 1>>
Zero == Q(0)
One == Q(1)

\* A negative float nearer to zero than half the spacing of the floats
\* around any other number of the model, such as -1e-20.  It is written
\* with the denominator 0.
NegTiny == <<-1, 0>>
IsTiny(x) == x[2] = 0

QNeg(x) == <<-x[1], x[2]>>

\* x + y.  The float sum of a tiny value and a number that is not zero
\* rounds to that number.
QAdd(x, y) ==
    IF IsTiny(y) THEN (IF x = Zero THEN y ELSE x)
    ELSE IF IsTiny(x) THEN (IF y = Zero THEN x ELSE y)
    ELSE LET g == GCD(x[2], y[2])
             l == (x[2] \div g) * y[2]
         IN  QNorm(x[1] * (l \div x[2]) + y[1] * (l \div y[2]), l)

QSub(x, y) == QAdd(x, QNeg(y))

QMul(x, y) ==
    LET g1 == GCD(Abs(x[1]), y[2])
        g2 == GCD(Abs(y[1]), x[2])
    IN  QNorm((x[1] \div g1) * (y[1] \div g2), (x[2] \div g2) * (y[2] \div g1))

\* x / y for y # 0 (the callers raise ZeroDivisionError before dividing by 0).
QDiv(x, y) == QMul(x, IF y[1] < 0 THEN <<-y[2], -y[1]>> ELSE <<y[2], y[1]>>)

QLe(x, y) == QSub(x, y)[1] <= 0
QLt(x, y) == QSub(x, y)[1] < 0
QAbs(x) == <<Abs(x[1]), x[2]>>

\* math.floor: the greatest integer <= x.
QFloor(x) == x[1] \div x[2]

\* int(x): truncation toward zero.
QInt(x) == IF x[1] >= 0 THEN x[1] \div x[2] ELSE -((-x[1]) \div x[2])

\* C's fmod(x, m): the remainder x - m * trunc(x / m), with the sign of x.
Fmod(x, m) ==
    IF IsTiny(x) THEN x ELSE QSub(x, QMul(m, Q(QInt(QDiv(x, m)))))

\* The sign fix-up of Python's float %: m is added to a remainder that is
\* not zero and whose sign differs from the sign of m.
SignFixed(r, m) ==
    IF r[1] # 0 /\ (m[1] < 0) # (r[1] < 0) THEN QAdd(r, m) ELSE r

\* Python's x % m on floats.
QMod(x, m) == SignFixed(Fmod(x, m), m)

RECURSIVE Pow10(_)
Pow10(k) == IF k = 0 THEN 1 ELSE 10 * Pow10(k - 1)

\* <<floor(acc * 10^k + r * 10^k / d), remainder>> by long division, 0 <= r < d.
RECURSIVE LongDiv(_, _, _, _)
LongDiv(acc, r, d, k) ==
    IF k = 0 THEN <<acc, r>>
    ELSE LongDiv(acc * 10 + (r * 10) \div d, (r * 10) % d, d, k - 1)

\* round(x, nd): the nearest multiple of 10^-nd, ties to the even multiple.
QRound(x, nd) ==
    LET p == LongDiv(QFloor(x), x[1] % x[2], x[2], nd)
        f == p[1]
        r == p[2]
        k == IF 2 * r > x[2] \/ (2 * r = x[2] /\ f % 2 = 1) THEN f + 1 ELSE f
    IN  QNorm(k, Pow10(nd))

(***************************************************************************)
(* Library functions: math.sin, math.cos, math.atan2, math.sqrt            *)
(***************************************************************************)
\* The sine of y degrees for 0 <= y <= 180 (Bhaskara's rational
\* approximation: exact at 0, 30, 90, 150 and 180 degrees, within [0, 1]).
SinHalfTurn(y) ==
    LET p == QMul(y, QSub(Q(180), y))
    IN  QDiv(QMul(Q(4), p), QSub(Q(40500), p))

\* math.sin(math.radians(x)) to three decimals, of the angle taken to three
\* decimals: odd about 180, period 360.
SinDeg(x) ==
    LET y == QMod(QRound(x, 3), Q(360))
    IN  QRound(IF QLe(y, Q(180)) THEN SinHalfTurn(y)
               ELSE QNeg(SinHalfTurn(QSub(y, Q(180)))), 3)

\* math.cos(math.radians(x)).
CosDeg(x) == SinDeg(QAdd(x, Q(90)))

\* math.sin(2*math.pi*t/period): the sine of t/period turns (period # 0).
SinTurns(t, period) == SinDeg(QDiv(QMul(Q(360), t), period))

(***************************************************************************)
(* Profiles (speed, altitude, gimbal, zoom)                                *)
(***************************************************************************)
\* Python's None where a number is expected, and the value of an unset variable.
None == <<>>

\* Python truthiness of a float: any non-zero number.
Truthy(x) == x[1] # 0

\* SpeedProfile.speed
speed(self, t) ==
    QAdd(self.base, QMul(self.sine_amp, SinTurns(t, self.sine_period)))

\* A variant of height without the clamp at the target altitude.
height_NoClamp(self, t) ==
    IF QLe(t, Zero) THEN self.takeoff_elevation
    ELSE
      LET h == QAdd(self.takeoff_elevation, QMul(self.climb_rate, t))
      IN  IF Truthy(self.sine_amp)
          THEN QAdd(h, QMul(self.sine_amp, SinTurns(t, self.sine_period)))
          ELSE h

\* A variant of height that computes a climb time for every climb rate that
\* is not zero.
height_AnyRateClimbs(self, t) ==
    IF QLe(t, Zero) THEN self.takeoff_elevation
    ELSE
      LET altitude_diff == QSub(self.takeoff_altitude, self.takeoff_elevation)
          climb_time == IF self.climb_rate # Zero
                        THEN QDiv(altitude_diff, self.climb_rate)
                        ELSE Zero
          h == IF QLe(t, climb_time)
               THEN QAdd(self.takeoff_elevation, QMul(self.climb_rate, t))
               ELSE self.takeoff_altitude
      IN  IF Truthy(self.sine_amp)
          THEN QAdd(h, QMul(self.sine_amp, SinTurns(t, self.sine_period)))
          ELSE h

\* AltitudeProfile.height
height(self, t) ==
    IF QLe(t, Zero) THEN self.takeoff_elevation
    ELSE
      LET altitude_diff == QSub(self.takeoff_altitude, self.takeoff_elevation)
          climb_time == IF QLt(Zero, self.climb_rate)
                        THEN QDiv(altitude_diff, self.climb_rate)
                        ELSE Zero
          h == IF QLe(t, climb_time)
               THEN QAdd(self.takeoff_elevation, QMul(self.climb_rate, t))
               ELSE self.takeoff_altitude
      IN  IF Truthy(self.sine_amp)
          THEN QAdd(h, QMul(self.sine_amp, SinTurns(t, self.sine_period)))
          ELSE h

\* GimbalProfile.yaw
yaw(self, heading, t) ==
    IF self.yaw_mode = "static"
    THEN QMod(QAdd(heading, self.yaw_static), Q(360))
    ELSE IF self.yaw_mode = "oscillating"
    THEN QMod(QAdd(heading, QMul(self.yaw_amp, SinTurns(t, self.yaw_period))),
              Q(360))
    ELSE IF self.yaw_mode = "rotating"
    THEN QMod(QAdd(heading, QMul(self.yaw_rotation_rate, t)), Q(360))
    ELSE QMod(heading, Q(360))

\* A variant of pitch that has no fallback for an unrecognized mode.
pitch_NoFallback(self, t) ==
    IF self.pitch_mode = "static" THEN self.pitch_static
    ELSE IF self.pitch_mode = "oscillating"
    THEN QAdd(self.pitch_mid,
              QMul(QDiv(self.pitch_amp, Q(2)), SinTurns(t, self.pitch_period)))
    ELSE Zero

\* GimbalProfile.pitch
pitch(self, t) ==
    IF self.pitch_mode = "static" THEN self.pitch_static
    ELSE IF self.pitch_mode = "oscillating"
    THEN QAdd(self.pitch_mid,
              QMul(QDiv(self.pitch_amp, Q(2)), SinTurns(t, self.pitch_period)))
    ELSE self.pitch_static

\* GimbalProfile.roll
roll(self, t) == QMul(self.roll_amp, SinTurns(t, self.roll_period))

\* A variant of zoom_factor that scales the sine by the whole range.
zoom_factor_FullRange(self, t) ==
    IF self.mode = "static" THEN self.static_value
    ELSE IF self.mode = "oscillating"
    THEN LET range_val == QSub(self.max_value, self.min_value)
         IN  QAdd(self.min_value,
                  QMul(range_val, QAdd(One, SinTurns(t, self.period))))
    ELSE self.static_value

\* ZoomProfile.zoom_factor
zoom_factor(self, t) ==
    IF self.mode = "static" THEN self.static_value
    ELSE IF self.mode = "oscillating"
    THEN LET range_val == QSub(self.max_value, self.min_value)
         IN  QAdd(self.min_value,
                  QMul(QDiv(range_val, Q(2)),
                       QAdd(One, SinTurns(t, self.period))))
    ELSE self.static_value

\* The dataclass defaults.
SpeedProfile == [base |-> Q(5), sine_amp |-> Zero, sine_period |-> Q(30)]

AltitudeProfile ==
    [takeoff_elevation |-> Zero, takeoff_altitude |-> Q(500),
     climb_rate |-> Q(2), sine_amp |-> Zero, sine_period |-> Q(60)]

GimbalProfile ==
    [yaw_mode |-> "static", yaw_static |-> Zero, yaw_amp |-> Q(90),
     yaw_period |-> Q(60), yaw_rotation_rate |-> One,
     pitch_mode |-> "static", pitch_static |-> Q(-30), pitch_mid |-> Q(-30),
     pitch_amp |-> Q(60), pitch_period |-> Q(60),
     roll_amp |-> Q(5), roll_period |-> Q(40)]

ZoomProfile ==
    [mode |-> "static", static_value |-> One, min_value |-> One,
     max_value |-> Q(3), period |-> Q(60)]

(***************************************************************************)
(* Flight configuration                                                    *)
(***************************************************************************)
\* The dataclass defaults of FlightConfig.
FlightConfig ==
    [path_type |-> "circle", duration |-> 120, hz |-> 1,
     center_lat |-> <<2276973, 50000>>, center_lon |-> <<-6138197, 50000>>,
     radius_m |-> Q(60), tri_edge_m |-> Q(120),
     start_lat |-> <<2276973, 50000>>, start_lon |-> <<-6138197, 50000>>,
     bearing_deg |-> Q(90),
     altitude |-> AltitudeProfile, speed |-> SpeedProfile,
     gimbal |-> GimbalProfile, zoom |-> ZoomProfile]

\* FlightConfig.total_pts
total_pts(c) == c.duration * c.hz

\* len(range(n)): range of a non-positive n is empty.
RangeLen(n) == IF n > 0 THEN n ELSE 0

(***************************************************************************)
(* Maths helpers                                                           *)
(***************************************************************************)
M_PER_DEG_LAT == 111320

\* math.sqrt(3) to three decimals.
Sqrt3 == <<433, 250>>

\* math.atan of z in [0, 1], in degrees (rational approximation to three
\* decimals, exact at 0 and 1).
AtanUnitDeg(z) ==
    LET zr == QRound(z, 3)
    IN  QRound(QMul(zr, QAdd(Q(45), QMul(<<391, 25>>, QSub(One, zr)))), 3)

\* math.degrees(math.atan2(y, x)), in (-180, 180]; atan2(0, 0) is 0.
Atan2Deg(y, x) ==
    IF x = Zero /\ y = Zero THEN Zero
    ELSE
      LET ax == QAbs(x)
          ay == QAbs(y)
          a == IF QLe(ay, ax) THEN AtanUnitDeg(QDiv(ay, ax))
               ELSE QSub(Q(90), AtanUnitDeg(QDiv(ax, ay)))
          b == IF x[1] < 0 THEN QSub(Q(180), a) ELSE a
      IN  IF y[1] < 0 THEN QNeg(b) ELSE b

\* meters_to_latlon_offset divides by M_PER_DEG_LAT * cos(lat_c): a
\* ZeroDivisionError when the cosine is 0.
OffsetRaises(lat_c) == CosDeg(lat_c) = Zero

\* meters_to_latlon_offset: <<dlat, dlon>>.
meters_to_latlon_offset(d_m, angle_deg, lat_c) ==
    LET m_per_deg_lon == QMul(Q(M_PER_DEG_LAT), CosDeg(lat_c))
        dlat == QDiv(QMul(d_m, CosDeg(angle_deg)), Q(M_PER_DEG_LAT))
        dlon == QDiv(QMul(d_m, SinDeg(angle_deg)), m_per_deg_lon)
    IN  <<dlat, dlon>>

(***************************************************************************)
(* Path generators: a waypoint is <<lat, lon, heading>>.  A call either    *)
(* returns a value (exc = "") or raises the exception named by exc.        *)
(***************************************************************************)
ZeroDivisionError == "ZeroDivisionError"
KeyError == "KeyError"

Returns(v) == [exc |-> "", val |-> v]
Raise(e) == [exc |-> e, val |-> <<>>]

gen_circle(c) ==
    IF RangeLen(total_pts(c)) > 0 /\ OffsetRaises(c.center_lat)
    THEN Raise(ZeroDivisionError)
    ELSE Returns(
      [k \in 1..RangeLen(total_pts(c)) |->
         LET frac == QNorm(k - 1, total_pts(c))
             ang == QMul(frac, Q(360))
             off == meters_to_latlon_offset(c.radius_m, ang, c.center_lat)
         IN  <<QAdd(c.center_lat, off[1]), QAdd(c.center_lon, off[2]),
               QMod(QAdd(ang, Q(90)), Q(360))>>])

\* A variant of gen_straight whose first waypoint is one step down the track.
gen_straight_FromFirstStep(c) ==
    IF total_pts(c) = 0 THEN Raise(ZeroDivisionError)
    ELSE IF RangeLen(total_pts(c)) > 0 /\ OffsetRaises(c.start_lat)
    THEN Raise(ZeroDivisionError)
    ELSE
      LET total_dist == QMul(c.speed.base, Q(c.duration))
          step == QDiv(total_dist, Q(total_pts(c)))
      IN  Returns(
            [k \in 1..RangeLen(total_pts(c)) |->
               LET d == QMul(step, Q(k))
                   off == meters_to_latlon_offset(d, c.bearing_deg, c.start_lat)
               IN  <<QAdd(c.start_lat, off[1]), QAdd(c.start_lon, off[2]),
                     QMod(c.bearing_deg, Q(360))>>])

gen_straight(c) ==
    IF total_pts(c) = 0 THEN Raise(ZeroDivisionError)
    ELSE IF RangeLen(total_pts(c)) > 0 /\ OffsetRaises(c.start_lat)
    THEN Raise(ZeroDivisionError)
    ELSE
      LET total_dist == QMul(c.speed.base, Q(c.duration))
          step == QDiv(total_dist, Q(total_pts(c)))
      IN  Returns(
            [k \in 1..RangeLen(total_pts(c)) |->
               LET d == QMul(step, Q(k - 1))
                   off == meters_to_latlon_offset(d, c.bearing_deg, c.start_lat)
               IN  <<QAdd(c.start_lat, off[1]), QAdd(c.start_lon, off[2]),
                     QMod(c.bearing_deg, Q(360))>>])

\* A variant of gen_hover that hovers over the circle/triangle centre.
gen_hover_AtCenter(c) ==
    Returns([k \in 1..RangeLen(total_pts(c)) |->
               <<c.center_lat, c.center_lon, QMod(c.bearing_deg, Q(360))>>])

gen_hover(c) ==
    Returns([k \in 1..RangeLen(total_pts(c)) |->
               <<c.start_lat, c.start_lon, QMod(c.bearing_deg, Q(360))>>])

\* The three vertices of gen_triangle, <<lat, lon>> each.
TriangleVerts(c) ==
    [k \in 1..3 |->
       LET ang == Q(90 + (k - 1) * 120)
           off == meters_to_latlon_offset(QDiv(c.tri_edge_m, Sqrt3), ang,
                                          c.center_lat)
       IN  <<QAdd(c.center_lat, off[1]), QAdd(c.center_lon, off[2])>>]

\* total_pts // 3 or 1
pts_per_edge(c) ==
    IF total_pts(c) \div 3 # 0 THEN total_pts(c) \div 3 ELSE 1

\* The waypoint at fraction t of the edge from vertex v1 to vertex v2
\* (the body of the inner loop of gen_triangle).
EdgePoint(v1, v2, t) ==
    <<QAdd(v1[1], QMul(t, QSub(v2[1], v1[1]))),
      QAdd(v1[2], QMul(t, QSub(v2[2], v1[2]))),
      QMod(Atan2Deg(QSub(v2[2], v1[2]), QSub(v2[1], v1[1])), Q(360))>>

\* A variant of EdgesFrom whose fractions run from 1/p to 1.
EdgesFrom_UpToEnd(verts, p) ==
    [n \in 1..(3 * RangeLen(p)) |->
       EdgePoint(verts[((n - 1) \div p) + 1],
                 verts[((((n - 1) \div p) + 1) % 3) + 1],
                 QNorm(((n - 1) % p) + 1, p))]

\* The waypoints of the three edges, before the padding loop: edge e
\* (0-based) contributes the points j = 0 .. pts_per_edge - 1.
EdgesFrom(verts, p) ==
    [n \in 1..(3 * RangeLen(p)) |->
       EdgePoint(verts[((n - 1) \div p) + 1],
                 verts[((((n - 1) \div p) + 1) % 3) + 1],
                 QNorm((n - 1) % p, p))]

TriangleEdges(c) == EdgesFrom(TriangleVerts(c), pts_per_edge(c))

\* A variant of PadWithLast that pads with the first waypoint.
PadWithLast_First(out, n) ==
    [k \in 1..(IF Len(out) < n THEN n ELSE Len(out)) |->
       IF k <= Len(out) THEN out[k] ELSE out[1]]

\* while len(out) < total_pts: out.append(out[-1])
PadWithLast(out, n) ==
    [k \in 1..(IF Len(out) < n THEN n ELSE Len(out)) |->
       IF k <= Len(out) THEN out[k] ELSE out[Len(out)]]

gen_triangle(c) ==
    IF OffsetRaises(c.center_lat) THEN Raise(ZeroDivisionError)
    ELSE Returns(PadWithLast(TriangleEdges(c), total_pts(c)))

\* PATHS[path_type](cfg); a path_type that is no key of PATHS is a KeyError.
PathNames == {"circle", "straight", "triangle", "hover"}

\* A variant of PATHS that falls back to the circle for an unknown key.
PATHS_DefaultsToCircle(c) ==
    IF c.path_type = "circle" THEN gen_circle(c)
    ELSE IF c.path_type = "straight" THEN gen_straight(c)
    ELSE IF c.path_type = "triangle" THEN gen_triangle(c)
    ELSE IF c.path_type = "hover" THEN gen_hover(c)
    ELSE gen_circle(c)

PATHS(c) ==
    IF c.path_type = "circle" THEN gen_circle(c)
    ELSE IF c.path_type = "straight" THEN gen_straight(c)
    ELSE IF c.path_type = "triangle" THEN gen_triangle(c)
    ELSE IF c.path_type = "hover" THEN gen_hover(c)
    ELSE Raise(KeyError)

(***************************************************************************)
(* State                                                                   *)
(***************************************************************************)
VARIABLES
    ns,           \* the argparse.Namespace handed to build_config
    cfg,          \* the FlightConfig
    pc,           \* position in build_config / generate_entries
    path_pts,     \* generate_entries: the waypoints of the selected generator
    i,            \* generate_entries: number of waypoints consumed by the loop
    flight_dist,  \* generate_entries: the accumulated distance
    entries,      \* generate_entries: the records built so far
    start_time,   \* generate_entries: the datetime read at line 253
    clock,        \* the wall clock (microseconds), as last read
    clock_reads,  \* datetime.now() calls made by the running generate_entries
    results,      \* what the calls of generate_entries returned, in order
    raised,       \* the exception that ended the last call, or ""
    call,         \* a profile evaluation: the method, its object and arguments
    ret           \* the value the profile evaluation returned, or None

vars == <<ns, cfg, pc, path_pts, i, flight_dist, entries, start_time, clock,
          clock_reads, results, raised, call, ret>>

genVars == <<cfg, pc, path_pts, i, flight_dist, entries, start_time, clock,
             clock_reads, results, raised>>

\* No generate_entries or build_config call is in progress.
GenIdle ==
    /\ cfg = None /\ pc = "idle" /\ path_pts = <<>> /\ i = 0
    /\ flight_dist = Zero /\ entries = <<>> /\ start_time = None
    /\ clock = 0 /\ clock_reads = 0 /\ results = <<>> /\ raised = ""

EvalIdle == call = None /\ ret = None

(***************************************************************************)
(* Entry generation                                                        *)
(***************************************************************************)
\* datetime.timedelta(seconds=t), in microseconds (rounded to the nearest).
TimedeltaMicros(t) == QRound(t, 6)[1] * (1000000 \div QRound(t, 6)[2])

\* datetime.isoformat(): the seconds, and the microseconds unless they are 0.
IsoFormat(dt) ==
    IF dt % 1000000 = 0 THEN <<dt \div 1000000>>
    ELSE <<dt \div 1000000, dt % 1000000>>

\* The sample time of waypoint k (0-based): t = i / cfg.hz.
SampleTime(c, k) == QNorm(k, c.hz)

\* A variant of Entry that derives seconds_elapsed from the wall clock.
Entry_ClockSeconds(c, k, wp, dist, start) ==
    LET t == SampleTime(c, k)
    IN  [data |->
          [latitude |-> QRound(wp[1], 6),
           longitude |-> QRound(wp[2], 6),
           height |-> QRound(height(c.altitude, t), 1),
           elevation |-> 0,
           attitude_head |-> QRound(wp[3], 1),
           attitude_roll |-> QRound(roll(c.gimbal, t), 2),
           attitude_pitch |-> Zero,
           gimbal_pitch |-> QRound(pitch(c.gimbal, t), 1),
           gimbal_roll |-> QRound(roll(c.gimbal, t), 2),
           gimbal_yaw |-> QRound(yaw(c.gimbal, wp[3], t), 1),
           zoom_factor |-> QRound(zoom_factor(c.zoom, t), 2),
           speed |-> QRound(speed(c.speed, t), 2),
           seconds_elapsed |-> QInt(t) + start,
           current_datetime |-> IsoFormat(start + TimedeltaMicros(t)),
           flight_distance |-> QRound(dist, 1)]]

\* The record appended for waypoint k (0-based) = wp, with the distance
\* accumulated so far (this sample included) and the start time.
Entry(c, k, wp, dist, start) ==
    LET t == SampleTime(c, k)
    IN  [data |->
          [latitude |-> QRound(wp[1], 6),
           longitude |-> QRound(wp[2], 6),
           height |-> QRound(height(c.altitude, t), 1),
           elevation |-> 0,
           attitude_head |-> QRound(wp[3], 1),
           attitude_roll |-> QRound(roll(c.gimbal, t), 2),
           attitude_pitch |-> Zero,
           gimbal_pitch |-> QRound(pitch(c.gimbal, t), 1),
           gimbal_roll |-> QRound(roll(c.gimbal, t), 2),
           gimbal_yaw |-> QRound(yaw(c.gimbal, wp[3], t), 1),
           zoom_factor |-> QRound(zoom_factor(c.zoom, t), 2),
           speed |-> QRound(speed(c.speed, t), 2),
           seconds_elapsed |-> QInt(t),
           current_datetime |-> IsoFormat(start + TimedeltaMicros(t)),
           flight_distance |-> QRound(dist, 1)]]

\* A variant of Accumulate that assigns instead of adding.
Accumulate_Assign(c, k, dist) ==
    QDiv(speed(c.speed, SampleTime(c, k)), Q(c.hz))

\* A variant of Accumulate that adds the speed as rounded for the record.
Accumulate_RoundedSpeed(c, k, dist) ==
    QAdd(dist, QDiv(QRound(speed(c.speed, SampleTime(c, k)), 2), Q(c.hz)))

\* flight_dist += speed / cfg.hz
Accumulate(c, k, dist) ==
    QAdd(dist, QDiv(speed(c.speed, SampleTime(c, k)), Q(c.hz)))

\* The loop body divides by cfg.hz and by the periods of the profiles it
\* evaluates: a zero there is a ZeroDivisionError.
LoopRaises(c, k) ==
    \/ c.hz = 0
    \/ c.speed.sine_period = Zero
    \/ c.gimbal.roll_period = Zero
    \/ k > 0 /\ Truthy(c.altitude.sine_amp) /\ c.altitude.sine_period = Zero
    \/ c.gimbal.yaw_mode = "oscillating" /\ c.gimbal.yaw_period = Zero
    \/ c.gimbal.pitch_mode = "oscillating" /\ c.gimbal.pitch_period = Zero
    \/ c.zoom.mode = "oscillating" /\ c.zoom.period = Zero

MaxCalls == 2
MaxClock == 2

\* Line 251: gen = PATHS[cfg.path_type].
SelectPath ==
    /\ pc = "idle" /\ Len(results) < MaxCalls
    /\ cfg.path_type \in PathNames
    /\ pc' = "selected"
    /\ path_pts' = <<>> /\ i' = 0 /\ flight_dist' = Zero /\ entries' = <<>>
    /\ start_time' = None /\ clock_reads' = 0 /\ raised' = ""
    /\ UNCHANGED <<ns, cfg, clock, results, call, ret>>

SelectPathRaises ==
    /\ pc = "idle" /\ Len(results) < MaxCalls
    /\ cfg.path_type \notin PathNames
    /\ pc' = "raised" /\ raised' = KeyError
    /\ path_pts' = <<>> /\ i' = 0 /\ flight_dist' = Zero /\ entries' = <<>>
    /\ start_time' = None /\ clock_reads' = 0
    /\ UNCHANGED <<ns, cfg, clock, results, call, ret>>

\* Line 252: path_pts = gen(cfg).
GeneratePath ==
    /\ pc = "selected"
    /\ PATHS(cfg).exc = ""
    /\ path_pts' = PATHS(cfg).val
    /\ pc' = "generated"
    /\ UNCHANGED <<ns, cfg, i, flight_dist, entries, start_time, clock,
                   clock_reads, results, raised, call, ret>>

GeneratePathRaises ==
    /\ pc = "selected"
    /\ PATHS(cfg).exc # ""
    /\ raised' = PATHS(cfg).exc
    /\ pc' = "raised"
    /\ UNCHANGED <<ns, cfg, path_pts, i, flight_dist, entries, start_time,
                   clock, clock_reads, results, call, ret>>

\* Lines 253-255: start_time = datetime.datetime.now(); the wall clock never
\* runs backwards.
ReadClock ==
    /\ pc = "generated"
    /\ \E now \in clock..MaxClock :
          /\ start_time' = now
          /\ clock' = now
    /\ clock_reads' = clock_reads + 1
    /\ entries' = <<>> /\ flight_dist' = Zero /\ i' = 0
    /\ pc' = "loop"
    /\ UNCHANGED <<ns, cfg, path_pts, results, raised, call, ret>>

\* A variant of LoopIter that reads the wall clock again for every sample.
LoopIter_ClockPerSample ==
    /\ pc = "loop" /\ i < Len(path_pts)
    /\ ~LoopRaises(cfg, i)
    /\ \E now \in clock..MaxClock :
          /\ start_time' = now
          /\ clock' = now
    /\ clock_reads' = clock_reads + 1
    /\ flight_dist' = Accumulate(cfg, i, flight_dist)
    /\ entries' = Append(entries,
                         Entry(cfg, i, path_pts[i + 1], flight_dist', start_time'))
    /\ i' = i + 1
    /\ UNCHANGED <<ns, cfg, pc, path_pts, results, raised, call, ret>>

\* Lines 256-278: one iteration of the loop over enumerate(path_pts).
LoopIter ==
    /\ pc = "loop" /\ i < Len(path_pts)
    /\ ~LoopRaises(cfg, i)
    /\ flight_dist' = Accumulate(cfg, i, flight_dist)
    /\ entries' = Append(entries,
                         Entry(cfg, i, path_pts[i + 1], flight_dist', start_time))
    /\ i' = i + 1
    /\ UNCHANGED <<ns, cfg, pc, path_pts, start_time, clock, clock_reads,
                   results, raised, call, ret>>

LoopIterRaises ==
    /\ pc = "loop" /\ i < Len(path_pts)
    /\ LoopRaises(cfg, i)
    /\ raised' = ZeroDivisionError
    /\ pc' = "raised"
    /\ UNCHANGED <<ns, cfg, path_pts, i, flight_dist, entries, start_time,
                   clock, clock_reads, results, call, ret>>

\* Line 279: return entries.
Return ==
    /\ pc = "loop" /\ i = Len(path_pts)
    /\ results' = Append(results, entries)
    /\ pc' = "idle"
    /\ UNCHANGED <<ns, cfg, path_pts, i, flight_dist, entries, start_time,
                   clock, clock_reads, raised, call, ret>>

(***************************************************************************)
(* The configurations generate_entries is called with                      *)
(***************************************************************************)
MaxDuration == 3
MaxHz == 2

\* A configuration near the equator and the prime meridian, climbing to 5 m.
BaseConfig ==
    [FlightConfig EXCEPT !.center_lat = Zero, !.center_lon = Zero,
                         !.start_lat = Zero, !.start_lon = One,
                         !.altitude.takeoff_altitude = Q(5)]

\* Every path type (and one that is no key of PATHS) with every duration and
\* sample rate, the non-positive ones included.
ShapeConfigs ==
    {[BaseConfig EXCEPT !.path_type = p, !.duration = d, !.hz = h] :
        p \in PathNames \cup {"zigzag"}, d \in -1..MaxDuration, h \in 0..MaxHz}

\* Start positions and bearings, in and out of [0, 360).
BearingConfigs ==
    {[FlightConfig EXCEPT !.path_type = p, !.duration = 2, !.hz = h,
                          !.start_lat = pos[1], !.start_lon = pos[2],
                          !.bearing_deg = b] :
        p \in {"hover", "straight"}, h \in 1..MaxHz,
        pos \in {<<Zero, One>>, <<Q(60), Q(-1)>>},
        b \in {Zero, Q(90), <<8999, 25>>, Q(370), Q(-10)}}
    \cup {[FlightConfig EXCEPT !.path_type = "hover", !.duration = 2,
                               !.bearing_deg = b] :
             b \in {Q(30), Q(725), NegTiny}}

\* Speed profiles: constant (one of them with a speed that rounding to two
\* decimals changes), modulated but never negative, and modulated into
\* negative speeds.
SpeedConfigs ==
    {[BaseConfig EXCEPT !.path_type = p, !.duration = MaxDuration, !.hz = h,
                        !.speed = sp] :
        p \in PathNames, h \in 1..MaxHz,
        sp \in {[base |-> Zero, sine_amp |-> Zero, sine_period |-> Q(30)],
                [base |-> <<27, 500>>, sine_amp |-> Zero, sine_period |-> Q(30)],
                [base |-> Q(2), sine_amp |-> One, sine_period |-> Q(4)],
                [base |-> One, sine_amp |-> One, sine_period |-> Q(4)],
                [base |-> One, sine_amp |-> Q(2), sine_period |-> Q(4)]}}

\* Profile modes: the recognized ones and strings that are none of them.
ModeConfigs ==
    {[BaseConfig EXCEPT !.path_type = p, !.duration = MaxDuration,
                        !.gimbal.yaw_mode = m[1], !.gimbal.pitch_mode = m[2],
                        !.zoom.mode = m[3],
                        !.gimbal.yaw_period = Q(4), !.gimbal.pitch_period = Q(4),
                        !.zoom.period = Q(4), !.zoom.static_value = Q(2),
                        !.gimbal.pitch_static = Q(-15),
                        !.altitude.sine_amp = a, !.altitude.sine_period = Q(4)] :
        p \in {"circle", "triangle", "straight"},
        m \in {<<"oscillating", "oscillating", "oscillating">>,
               <<"rotating", "static", "static">>,
               <<"spin", "tilt", "zigzag">>,
               <<"", "Static", "OSCILLATING">>},
        a \in {Zero, One}}

\* Sample rates at and above the resolution of a timestamp (a microsecond),
\* on the three waypoints a triangle of duration 0 has.
RateConfigs ==
    {[BaseConfig EXCEPT !.path_type = "triangle", !.duration = 0, !.hz = h] :
        h \in {1000000, 2000000}}

\* Triangles whose number of samples leaves a remainder of 1 or 2 when
\* divided by 3.
PaddingConfigs ==
    {[BaseConfig EXCEPT !.path_type = "triangle", !.duration = d] :
        d \in {5, 7}}

\* Degenerate geometry: a triangle of edge length 0 and a circle of
\* radius 0.
DegenerateConfigs ==
    {[BaseConfig EXCEPT !.path_type = p, !.duration = MaxDuration, !.hz = h,
                        !.tri_edge_m = Zero, !.radius_m = Zero] :
        p \in {"triangle", "circle"}, h \in 1..MaxHz}

Configs ==
    ShapeConfigs \cup BearingConfigs \cup SpeedConfigs \cup ModeConfigs
       \cup RateConfigs \cup PaddingConfigs \cup DegenerateConfigs

Init ==
    /\ cfg \in Configs
    /\ pc = "idle" /\ path_pts = <<>> /\ i = 0
    /\ flight_dist = Zero /\ entries = <<>> /\ start_time = None
    /\ clock = 0 /\ clock_reads = 0 /\ results = <<>> /\ raised = ""
    /\ ns = None /\ EvalIdle

Next ==
    \/ SelectPath
    \/ SelectPathRaises
    \/ GeneratePath
    \/ GeneratePathRaises
    \/ ReadClock
    \/ LoopIter
    \/ LoopIterRaises
    \/ Return

Spec == Init /\ [][Next]_vars

(***************************************************************************)
(* build_config.  ns carries the attributes build_config reads directly    *)
(* (path, duration, hz, center, radius, tri_edge, start, bearing) as       *)
(* fields, and the attributes it reads behind hasattr in ns.opt, a         *)
(* function whose domain is the set of those attributes the namespace has. *)
(* A numeric option is a rational or None.  A "lat,lon" string is the      *)
(* sequence of its comma-separated numbers, the empty sequence standing    *)
(* for both None and "".  A mode is a string, "" standing for both None    *)
(* and "".                                                                 *)
(***************************************************************************)
ValueError == "ValueError"

\* bool(x) of a float option: neither None nor 0.0.
TruthyNum(x) == x # None /\ x[1] # 0

\* hasattr(ns, name) and ns.name is not None
IsNotNone(n, name) == name \in DOMAIN n.opt /\ n.opt[name] # None

\* hasattr(ns, name) and ns.name, for a mode string
IsSet(n, name) == name \in DOMAIN n.opt /\ n.opt[name] # ""

Override(n, name, default) ==
    IF IsNotNone(n, name) THEN n.opt[name] ELSE default

OverrideMode(n, name, default) ==
    IF IsSet(n, name) THEN n.opt[name] ELSE default

\* a, b = map(float, s.split(",")) raises unless s has two parts.
UnpackRaises(s) == Len(s) # 2

UsesCenter(n) == n.path \in {"circle", "triangle"} /\ n.center # <<>>
UsesStart(n) == n.path \in {"straight", "hover"} /\ n.start # <<>>

build_config(n) ==
    IF \/ UsesCenter(n) /\ UnpackRaises(n.center)
       \/ UsesStart(n) /\ UnpackRaises(n.start)
    THEN Raise(ValueError)
    ELSE Returns(
      [path_type |-> n.path, duration |-> n.duration, hz |-> n.hz,
       center_lat |-> IF UsesCenter(n) THEN n.center[1]
                      ELSE FlightConfig.center_lat,
       center_lon |-> IF UsesCenter(n) THEN n.center[2]
                      ELSE FlightConfig.center_lon,
       radius_m |-> IF n.path = "circle" /\ TruthyNum(n.radius)
                    THEN n.radius ELSE FlightConfig.radius_m,
       tri_edge_m |-> IF n.path = "triangle" /\ TruthyNum(n.tri_edge)
                      THEN n.tri_edge ELSE FlightConfig.tri_edge_m,
       start_lat |-> IF UsesStart(n) THEN n.start[1]
                     ELSE FlightConfig.start_lat,
       start_lon |-> IF UsesStart(n) THEN n.start[2]
                     ELSE FlightConfig.start_lon,
       bearing_deg |-> IF n.path \in {"straight", "hover"} /\ n.bearing # None
                       THEN n.bearing ELSE FlightConfig.bearing_deg,
       altitude |->
         [AltitudeProfile EXCEPT
            !.takeoff_elevation = Override(n, "takeoff_elevation", @),
            !.takeoff_altitude = Override(n, "takeoff_altitude", @),
            !.climb_rate = Override(n, "climb_rate", @),
            !.sine_amp = Override(n, "sine_amp", @),
            !.sine_period = Override(n, "sine_period", @)],
       speed |-> SpeedProfile,
       gimbal |->
         [GimbalProfile EXCEPT
            !.yaw_mode = OverrideMode(n, "yaw_mode", @),
            !.yaw_static = Override(n, "yaw_static", @),
            !.yaw_amp = Override(n, "yaw_amp", @),
            !.yaw_period = Override(n, "yaw_period", @),
            !.yaw_rotation_rate = Override(n, "yaw_rotation_rate", @),
            !.pitch_mode = OverrideMode(n, "pitch_mode", @),
            !.pitch_static = Override(n, "pitch_static", @),
            !.pitch_mid = Override(n, "pitch_mid", @),
            !.pitch_amp = Override(n, "pitch_amp", @),
            !.pitch_period = Override(n, "pitch_period", @)],
       zoom |->
         [ZoomProfile EXCEPT
            !.mode = OverrideMode(n, "zoom_mode", @),
            !.static_value = Override(n, "zoom_static", @),
            !.min_value = Override(n, "zoom_min", @),
            !.max_value = Override(n, "zoom_max", @),
            !.period = Override(n, "zoom_period", @)]])

\* cfg = build_config(args)
BuildConfig ==
    /\ pc = "args" /\ build_config(ns).exc = ""
    /\ cfg' = build_config(ns).val
    /\ pc' = "built"
    /\ UNCHANGED <<ns, path_pts, i, flight_dist, entries, start_time, clock,
                   clock_reads, results, raised, call, ret>>

BuildConfigRaises ==
    /\ pc = "args" /\ build_config(ns).exc # ""
    /\ raised' = build_config(ns).exc
    /\ pc' = "raised"
    /\ UNCHANGED <<ns, cfg, path_pts, i, flight_dist, entries, start_time,
                   clock, clock_reads, results, call, ret>>

NumericOptions ==
    {"takeoff_elevation", "takeoff_altitude", "climb_rate", "sine_amp",
     "sine_period", "yaw_static", "yaw_amp", "yaw_period",
     "yaw_rotation_rate", "pitch_static", "pitch_mid", "pitch_amp",
     "pitch_period", "zoom_static", "zoom_min", "zoom_max", "zoom_period"}

ModeOptions == {"yaw_mode", "pitch_mode", "zoom_mode"}

\* A namespace without any of the attributes read behind hasattr and with
\* the geometry options left out.
BareNamespace ==
    [path |-> "circle", duration |-> 120, hz |-> 1, center |-> <<>>,
     radius |-> None, tri_edge |-> None, start |-> <<>>, bearing |-> None,
     opt |-> <<>>]

\* Geometry options: left out, zero, non-zero, and "lat,lon" strings of
\* one, two and three parts.
GeometryNamespaces ==
    {[BareNamespace EXCEPT !.path = p, !.center = c, !.radius = r,
                           !.tri_edge = e, !.start = s, !.bearing = b] :
        p \in PathNames,
        c \in {<<>>, <<Q(10), Q(20)>>, <<Q(10)>>},
        r \in {None, Zero, Q(100)},
        e \in {None, Zero, Q(50)},
        s \in {<<>>, <<Q(-1), Q(2)>>, <<Q(1), Q(2), Q(3)>>},
        b \in {None, Zero, Q(45)}}

\* One option behind hasattr present, or all of them.
OptionNamespaces ==
    {[BareNamespace EXCEPT !.opt = [name \in {o} |-> v]] :
        o \in NumericOptions, v \in {None, Zero, Q(7)}}
    \cup {[BareNamespace EXCEPT !.opt = [name \in {o} |-> m]] :
            o \in ModeOptions, m \in {"", "oscillating", "spin"}}
    \cup {[BareNamespace EXCEPT !.opt =
             [name \in NumericOptions \cup ModeOptions |->
                IF name \in ModeOptions THEN m ELSE v]] :
            v \in {None, Zero, Q(7)}, m \in {"", "oscillating"}}

Namespaces == GeometryNamespaces \cup OptionNamespaces

InitBuild ==
    /\ ns \in Namespaces
    /\ cfg = None /\ pc = "args" /\ path_pts = <<>> /\ i = 0
    /\ flight_dist = Zero /\ entries = <<>> /\ start_time = None
    /\ clock = 0 /\ clock_reads = 0 /\ results = <<>> /\ raised = ""
    /\ EvalIdle

NextBuild ==
    \/ BuildConfig
    \/ BuildConfigRaises

SpecBuild == InitBuild /\ [][NextBuild]_vars

(***************************************************************************)
(* Profile evaluators as operations: the inputs are drawn by InitEval      *)
(***************************************************************************)
MaxTicks == 6
MaxRate == 3

\* Sample times i / hz, and one instant before the mission start.
Times == {QNorm(k, h) : k \in 0..MaxTicks, h \in 1..MaxRate} \cup {Q(-1)}

Periods == {Q(4), Q(60)}

SpeedProfiles ==
    {[base |-> b, sine_amp |-> a, sine_period |-> p] :
        b \in {Q(5), Q(1)}, a \in {Zero, One, Q(2)}, p \in Periods}

AltitudeProfiles ==
    {[takeoff_elevation |-> s, takeoff_altitude |-> g, climb_rate |-> r,
      sine_amp |-> a, sine_period |-> Q(4)] :
        s \in {Zero, Q(3)}, g \in {Zero, Q(3), Q(5)},
        r \in {Q(-1), Zero, <<1, 2>>, Q(2), Q(3)}, a \in {Zero, One}}

YawProfiles ==
    {[GimbalProfile EXCEPT !.yaw_mode = "static", !.yaw_static = s] :
        s \in {Zero, Q(-30), Q(400), <<-1, 25>>, NegTiny}}
    \cup {[GimbalProfile EXCEPT !.yaw_mode = "oscillating", !.yaw_amp = a,
                                !.yaw_period = p] :
        a \in {Q(90), Q(-90), Q(400)}, p \in Periods}
    \cup {[GimbalProfile EXCEPT !.yaw_mode = "rotating",
                                !.yaw_rotation_rate = r] :
        r \in {One, Q(-45), Q(100)}}
    \cup {[GimbalProfile EXCEPT !.yaw_mode = m] : m \in {"spin", ""}}

PitchProfiles ==
    {[GimbalProfile EXCEPT !.pitch_mode = m, !.pitch_static = s,
                           !.pitch_amp = a, !.pitch_period = p] :
        m \in {"static", "oscillating", "tilt"}, s \in {Q(-30), Q(10)},
        a \in {Q(60), Q(-20)}, p \in Periods}

RollProfiles ==
    {[GimbalProfile EXCEPT !.roll_amp = a, !.roll_period = p] :
        a \in {Q(5), Q(-5), Zero}, p \in {Q(4), Q(40)}}

ZoomProfiles ==
    {[mode |-> m, static_value |-> s, min_value |-> lo, max_value |-> hi,
      period |-> p] :
        m \in {"static", "oscillating", "zigzag"}, s \in {One, Q(2)},
        lo \in {<<1, 2>>, One, Q(3)}, hi \in {One, Q(3)}, p \in Periods}

Headings == {Zero, Q(90), Q(350), <<8999, 25>>, Q(-10), Q(370), <<725, 2>>}

Call(fn, self, heading, t) ==
    [fn |-> fn, self |-> self, heading |-> heading, t |-> t]

Calls ==
    {Call("speed", p, None, t) : p \in SpeedProfiles, t \in Times}
    \cup {Call("height", p, None, t) : p \in AltitudeProfiles, t \in Times}
    \cup {Call("yaw", p, h, t) : p \in YawProfiles, h \in Headings, t \in Times}
    \cup {Call("pitch", p, None, t) : p \in PitchProfiles, t \in Times}
    \cup {Call("roll", p, None, t) : p \in RollProfiles, t \in Times}
    \cup {Call("zoom_factor", p, None, t) : p \in ZoomProfiles, t \in Times}

InitEval == GenIdle /\ ns = None /\ call \in Calls /\ ret = None

Eval(fn, value) ==
    /\ call.fn = fn /\ ret = None
    /\ ret' = value
    /\ UNCHANGED <<ns, call, genVars>>

EvalSpeed == Eval("speed", speed(call.self, call.t))
EvalHeight == Eval("height", height(call.self, call.t))
EvalYaw == Eval("yaw", yaw(call.self, call.heading, call.t))
EvalPitch == Eval("pitch", pitch(call.self, call.t))
EvalRoll == Eval("roll", roll(call.self, call.t))
EvalZoom == Eval("zoom_factor", zoom_factor(call.self, call.t))

NextEval ==
    \/ EvalSpeed
    \/ EvalHeight
    \/ EvalYaw
    \/ EvalPitch
    \/ EvalRoll
    \/ EvalZoom

SpecEval == InitEval /\ [][NextEval]_vars

(***************************************************************************)
(* Claims about the profile evaluators (checked under SpecEval)            *)
(***************************************************************************)
Returned(fn) == call.fn = fn /\ ret # None

\* The altitude evaluation is one the claim C6 covers: no ripple, a
\* positive climb rate, a target at or above the start, and t >= 0.
AltNoRipple ==
    /\ Returned("height")
    /\ ~Truthy(call.self.sine_amp)
    /\ QLt(Zero, call.self.climb_rate)
    /\ QLe(call.self.takeoff_elevation, call.self.takeoff_altitude)
    /\ QLe(Zero, call.t)

ClimbTime(self) ==
    QDiv(QSub(self.takeoff_altitude, self.takeoff_elevation), self.climb_rate)

ZoomOscillating ==
    /\ Returned("zoom_factor")
    /\ call.self.mode = "oscillating"
    /\ QLe(call.self.min_value, call.self.max_value)
    /\ QLe(Zero, call.t)

C8_YawNormalizedPitchRollSigned ==
    /\ (Returned("yaw") /\ QLe(Zero, call.t))
         => QLe(Zero, ret) /\ QLt(ret, Q(360))
    /\ (Returned("pitch") /\ call.self.pitch_mode # "oscillating")
         => ret = call.self.pitch_static
    /\ (Returned("pitch") /\ call.self.pitch_mode = "oscillating")
         => ret = QAdd(call.self.pitch_mid,
                       QMul(QDiv(call.self.pitch_amp, Q(2)),
                            SinTurns(call.t, call.self.pitch_period)))
    /\ Returned("roll")
         => ret = QMul(call.self.roll_amp,
                       SinTurns(call.t, call.self.roll_period))

(***************************************************************************)
(* Claims about the path generators and generate_entries (under Spec)      *)
(***************************************************************************)
\* C1: for every path type and every duration >= 1 and sample_rate >= 1,
\* generate_entries returns exactly duration * sample_rate records
\* (triangle configurations with 1 or 2 samples included).
C1_LengthIsDurationTimesRate ==
    (cfg.duration >= 1 /\ cfg.hz >= 1)
       => \A r \in 1..Len(results) : Len(results[r]) = cfg.duration * cfg.hz

\* A generator (line 252) raised: the call ended before the clock was read,
\* with an exception other than the KeyError of the path selection.
GeneratorRaised == pc = "raised" /\ clock_reads = 0 /\ raised # KeyError

\* C2: no path generator raises: with a non-positive duration or sample
\* rate (total_samples 0 in particular) each generator returns a zero- or
\* near-zero-length waypoint sequence instead of failing.
C2_NoGeneratorRaises ==
    (cfg.duration <= 0 \/ cfg.hz <= 0)
       => /\ ~GeneratorRaised
          /\ pc = "generated" => Len(path_pts) <= 3

HoverGenerated == pc = "generated" /\ cfg.path_type = "hover"

\* C3 as stated: every waypoint of gen_hover is the configured start
\* latitude and longitude with the heading equal to the configured bearing,
\* for any bearing.
C3_HoverHeadingIsBearing ==
    HoverGenerated
       => \A k \in 1..Len(path_pts) :
             path_pts[k] = <<cfg.start_lat, cfg.start_lon, cfg.bearing_deg>>

\* h lies between 0 and 360 and differs from x by a whole multiple of 360.
IsMod360(h, x) ==
    /\ QLe(Zero, h) /\ QLe(h, Q(360))
    /\ QDiv(QSub(x, h), Q(360))[2] = 1

\* C3 as amended: every waypoint of gen_hover is identical, at the
\* configured start latitude and longitude, with the heading equal to
\* bearing % 360: the bearing itself when 0 <= bearing < 360, and otherwise
\* the bearing moved by a whole multiple of 360 to lie between 0 and 360.
C3_HoverHeadingIsBearingMod360 ==
    HoverGenerated
       => \A k \in 1..Len(path_pts) :
             /\ path_pts[k] = path_pts[1]
             /\ path_pts[k][1] = cfg.start_lat
             /\ path_pts[k][2] = cfg.start_lon
             /\ IsMod360(path_pts[k][3], cfg.bearing_deg)
             /\ (QLe(Zero, cfg.bearing_deg) /\ QLt(cfg.bearing_deg, Q(360)))
                   => path_pts[k][3] = cfg.bearing_deg

\* C3's case: a hover of several waypoints away from the default centre
\* whose bearing lies outside [0, 360).
C3_Witness ==
    /\ HoverGenerated
    /\ Len(path_pts) >= 2
    /\ cfg.start_lat # cfg.center_lat
    /\ QLe(Q(360), cfg.bearing_deg)

\* speed(t) >= 0 at every sample time of the path.
SpeedNonNegative ==
    \A k \in 0..(Len(path_pts) - 1) :
       QLe(Zero, speed(cfg.speed, SampleTime(cfg, k)))

FlightDistance(rec) == rec.data.flight_distance

\* C4: for every path type and every speed profile that is non-negative at
\* every sample time (sample_rate >= 1), flight_distance never decreases
\* from one record to the next.
C4_FlightDistanceNonDecreasing ==
    (cfg.hz >= 1 /\ pc \in {"loop", "idle"} /\ SpeedNonNegative)
       => /\ \A k \in 1..(Len(entries) - 1) :
                QLe(FlightDistance(entries[k]), FlightDistance(entries[k + 1]))
          /\ \A r \in 1..Len(results) :
                \A k \in 1..(Len(results[r]) - 1) :
                   QLe(FlightDistance(results[r][k]),
                       FlightDistance(results[r][k + 1]))

\* C4's case: a returned sequence built with a modulated speed that is
\* never negative, whose distance has grown.
C4_Witness ==
    /\ Len(results) >= 1 /\ Len(results[1]) >= 3
    /\ cfg.hz >= 1 /\ SpeedNonNegative
    /\ Truthy(cfg.speed.sine_amp)
    /\ QLt(FlightDistance(results[1][1]),
           FlightDistance(results[1][Len(results[1])]))

\* A record without its timestamp.
SansTimestamp(rec) == [rec.data EXCEPT !.current_datetime = <<>>]

\* C5: two calls of generate_entries with the same configuration return
\* sequences of equal length whose records agree, index by index, in every
\* field except current_datetime.
C5_SameConfigSameRecords ==
    \A a, b \in 1..Len(results) :
       /\ Len(results[a]) = Len(results[b])
       /\ \A k \in 1..Len(results[a]) :
             SansTimestamp(results[a][k]) = SansTimestamp(results[b][k])

\* C5's case: two calls returned, at different start times.
C5_Witness ==
    /\ Len(results) = 2
    /\ Len(results[1]) >= 2
    /\ results[1][1].data.current_datetime # results[2][1].data.current_datetime

YawModes == {"static", "oscillating", "rotating"}
PitchModes == {"static", "oscillating"}
ZoomModes == {"static", "oscillating"}

\* The record built for waypoint k (1-based) shows the fallback of every
\* profile whose mode is unrecognized.
FallbackShown(rec, wp) ==
    /\ cfg.gimbal.yaw_mode \notin YawModes
         => /\ IsMod360(yaw(cfg.gimbal, wp[3], Zero), wp[3])
            /\ rec.data.gimbal_yaw = QRound(yaw(cfg.gimbal, wp[3], Zero), 1)
    /\ cfg.gimbal.pitch_mode \notin PitchModes
         => rec.data.gimbal_pitch = QRound(cfg.gimbal.pitch_static, 1)
    /\ cfg.zoom.mode \notin ZoomModes
         => rec.data.zoom_factor = QRound(cfg.zoom.static_value, 2)

SomeModeUnrecognized ==
    \/ cfg.gimbal.yaw_mode \notin YawModes
    \/ cfg.gimbal.pitch_mode \notin PitchModes
    \/ cfg.zoom.mode \notin ZoomModes

\* C9: an unrecognized yaw mode yields heading mod 360, an unrecognized
\* pitch mode the static pitch and an unrecognized zoom mode the static
\* zoom; nothing raises, and generate_entries returns one record per
\* waypoint under any mode strings.
C9_UnknownModesFallBack ==
    (SomeModeUnrecognized /\ cfg.hz >= 1 /\ clock_reads > 0)
       => /\ raised = ""
          /\ \A k \in 1..Len(entries) : FallbackShown(entries[k], path_pts[k])
          /\ pc = "idle" => /\ Len(results) >= 1
                            /\ Len(results[Len(results)]) = Len(path_pts)

\* C9's case: a full sequence returned with unrecognized yaw, pitch and
\* zoom modes.
C9_Witness ==
    /\ cfg.gimbal.yaw_mode = "spin" /\ cfg.gimbal.pitch_mode = "tilt"
    /\ cfg.zoom.mode = "zigzag"
    /\ Len(results) >= 1
    /\ Len(results[1]) = cfg.duration * cfg.hz
    /\ Len(results[1]) >= 3

(***************************************************************************)
(* Claims about build_config (checked under SpecBuild)                     *)
(***************************************************************************)
\* The field of a FlightConfig an option behind hasattr is stored in.
CfgOption(c, name) ==
    CASE name = "takeoff_elevation" -> c.altitude.takeoff_elevation
      [] name = "takeoff_altitude" -> c.altitude.takeoff_altitude
      [] name = "climb_rate" -> c.altitude.climb_rate
      [] name = "sine_amp" -> c.altitude.sine_amp
      [] name = "sine_period" -> c.altitude.sine_period
      [] name = "yaw_mode" -> c.gimbal.yaw_mode
      [] name = "yaw_static" -> c.gimbal.yaw_static
      [] name = "yaw_amp" -> c.gimbal.yaw_amp
      [] name = "yaw_period" -> c.gimbal.yaw_period
      [] name = "yaw_rotation_rate" -> c.gimbal.yaw_rotation_rate
      [] name = "pitch_mode" -> c.gimbal.pitch_mode
      [] name = "pitch_static" -> c.gimbal.pitch_static
      [] name = "pitch_mid" -> c.gimbal.pitch_mid
      [] name = "pitch_amp" -> c.gimbal.pitch_amp
      [] name = "pitch_period" -> c.gimbal.pitch_period
      [] name = "zoom_mode" -> c.zoom.mode
      [] name = "zoom_static" -> c.zoom.static_value
      [] name = "zoom_min" -> c.zoom.min_value
      [] name = "zoom_max" -> c.zoom.max_value
      [] name = "zoom_period" -> c.zoom.period

\* A supplied option that is relevant to the path has the supplied value,
\* an omitted one the default.
Applied(relevant, supplied, field, value, default) ==
    /\ (relevant /\ supplied) => field = value
    /\ ~supplied => field = default

\* C10: build_config puts every supplied option that is relevant to the
\* chosen path type (center, radius, triangle edge, start, bearing, each
\* altitude, gimbal and zoom option) into the returned FlightConfig with
\* the supplied value, whatever that value is, and gives every omitted
\* option its default.
C10_SuppliedOptionsApplied ==
    pc = "built" =>
       /\ Applied(ns.path \in {"circle", "triangle"}, ns.center # <<>>,
                  <<cfg.center_lat, cfg.center_lon>>, ns.center,
                  <<FlightConfig.center_lat, FlightConfig.center_lon>>)
       /\ Applied(ns.path = "circle", ns.radius # None,
                  cfg.radius_m, ns.radius, FlightConfig.radius_m)
       /\ Applied(ns.path = "triangle", ns.tri_edge # None,
                  cfg.tri_edge_m, ns.tri_edge, FlightConfig.tri_edge_m)
       /\ Applied(ns.path \in {"straight", "hover"}, ns.start # <<>>,
                  <<cfg.start_lat, cfg.start_lon>>, ns.start,
                  <<FlightConfig.start_lat, FlightConfig.start_lon>>)
       /\ Applied(ns.path \in {"straight", "hover"}, ns.bearing # None,
                  cfg.bearing_deg, ns.bearing, FlightConfig.bearing_deg)
       /\ \A o \in NumericOptions :
             IF IsNotNone(ns, o)
             THEN CfgOption(cfg, o) = ns.opt[o]
             ELSE CfgOption(cfg, o) = CfgOption(FlightConfig, o)
       /\ \A o \in ModeOptions :
             IF IsSet(ns, o)
             THEN CfgOption(cfg, o) = ns.opt[o]
             ELSE CfgOption(cfg, o) = CfgOption(FlightConfig, o)
       /\ cfg.path_type = ns.path /\ cfg.duration = ns.duration
       /\ cfg.hz = ns.hz

(***************************************************************************)
(* Further claims about generate_entries and the generators (under Spec)   *)
(***************************************************************************)
\* The microseconds a timestamp written by isoformat() stands for.
IsoMicros(iso) == iso[1] * 1000000 + (IF Len(iso) = 2 THEN iso[2] ELSE 0)

Timestamp(rec) == IsoMicros(rec.data.current_datetime)

\* A call has read the clock and is in its loop, or has just returned.
InOrAfterLoop == pc = "loop" \/ (pc = "idle" /\ Len(results) >= 1)

\* C11 as stated: generate_entries reads the wall clock exactly once per
\* call, never per sample; record k carries that start time plus k / sample_rate
\* seconds (to the microsecond); so for sample_rate >= 1 the timestamps
\* strictly increase along the sequence, which is in sample-index order.
C11_ClockReadOnceTimestampsAscend ==
    (InOrAfterLoop /\ cfg.hz >= 1)
       => /\ clock_reads = 1
          /\ \A k \in 1..Len(entries) :
                /\ 2 * Abs((Timestamp(entries[k]) - start_time) * cfg.hz
                           - (k - 1) * 1000000) <= cfg.hz
                /\ entries[k].data.seconds_elapsed = (k - 1) \div cfg.hz
          /\ \A k \in 1..(Len(entries) - 1) :
                Timestamp(entries[k]) < Timestamp(entries[k + 1])

\* C11 as amended: generate_entries reads the wall clock exactly once per
\* call; record k carries that start time plus k / sample_rate seconds
\* rounded to the microsecond; so for sample_rate >= 1 the timestamps never
\* decrease along the sequence, which is in sample-index order, and they
\* strictly increase when sample_rate <= 1000000.
C11_ClockReadOnceTimestampsNeverDescend ==
    (InOrAfterLoop /\ cfg.hz >= 1)
       => /\ clock_reads = 1
          /\ \A k \in 1..Len(entries) :
                /\ 2 * Abs((Timestamp(entries[k]) - start_time) * cfg.hz
                           - (k - 1) * 1000000) <= cfg.hz
                /\ entries[k].data.seconds_elapsed = (k - 1) \div cfg.hz
          /\ \A k \in 1..(Len(entries) - 1) :
                /\ Timestamp(entries[k]) <= Timestamp(entries[k + 1])
                /\ cfg.hz <= 1000000
                     => Timestamp(entries[k]) < Timestamp(entries[k + 1])

\* C11's case: a sequence of several records at two samples per second,
\* returned by a call that started after the epoch of the model's clock.
C11_Witness ==
    /\ pc = "idle" /\ Len(results) >= 1
    /\ cfg.hz = 2 /\ Len(entries) >= 3
    /\ start_time >= 1
    /\ Timestamp(entries[2]) = start_time + 500000

TriangleGenerated == pc = "generated" /\ cfg.path_type = "triangle"

\* C12: with p = total_samples // 3 and total_samples >= 3 not divisible
\* by 3, gen_triangle returns total_samples waypoints of which the last
\* total_samples - 3p (indexes 3p .. total_samples - 1) each equal the
\* final interpolated waypoint, at index 3p - 1, and the first 3p are the
\* interpolated waypoints unchanged.
C12_TrianglePaddingRepeatsLast ==
    (TriangleGenerated /\ total_pts(cfg) >= 3 /\ total_pts(cfg) % 3 # 0)
       => /\ Len(path_pts) = total_pts(cfg)
          /\ \A k \in (3 * (total_pts(cfg) \div 3) + 1)..total_pts(cfg) :
                path_pts[k] = path_pts[3 * (total_pts(cfg) \div 3)]
          /\ SubSeq(path_pts, 1, 3 * (total_pts(cfg) \div 3))
                = TriangleEdges(cfg)

\* C12's case: a triangle of 5 samples: two padded waypoints repeating the
\* third, which differs from the first two.
C12_Witness ==
    /\ TriangleGenerated /\ total_pts(cfg) = 5
    /\ path_pts[4] = path_pts[3] /\ path_pts[5] = path_pts[3]
    /\ path_pts[3] # path_pts[2] /\ path_pts[3] # path_pts[1]

\* The sum over k = 0 .. n of speed(k / sample_rate) / sample_rate.
RECURSIVE SpeedSum(_, _)
SpeedSum(c, n) ==
    IF n < 0 THEN Zero
    ELSE QAdd(SpeedSum(c, n - 1),
              QDiv(speed(c.speed, QNorm(n, c.hz)), Q(c.hz)))

\* C13: record i's flight_distance is the 1-decimal rounding of the sum
\* over k = 0 .. i of speed(k / sample_rate) / sample_rate, taken over the
\* unrounded speeds; sample i's speed is added before record i is built,
\* so that record 0 carries speed(0) / sample_rate and, at a constant
\* speed, record i carries (i + 1) * base / sample_rate, one step ahead of
\* the straight path's waypoint i at i * base / sample_rate.
C13_FlightDistanceIsRoundedRunningSum ==
    (InOrAfterLoop /\ cfg.hz >= 1)
       => \A k \in 1..Len(entries) :
             /\ FlightDistance(entries[k]) = QRound(SpeedSum(cfg, k - 1), 1)
             /\ ~Truthy(cfg.speed.sine_amp)
                  => FlightDistance(entries[k])
                       = QRound(QMul(Q(k), QDiv(cfg.speed.base, Q(cfg.hz))), 1)

\* C13's case: at the constant speed 0.054 m/s and one sample per second
\* the first record shows the speed 0.05 and the distance 0.1, the third
\* the distance 0.2.
C13_Witness ==
    /\ pc = "idle" /\ Len(results) >= 1 /\ cfg.hz = 1
    /\ cfg.speed.base = <<27, 500>>
    /\ Len(entries) >= 3
    /\ entries[1].data.speed = <<1, 20>>
    /\ FlightDistance(entries[1]) = <<1, 10>>
    /\ FlightDistance(entries[3]) = <<1, 5>>

StraightGenerated ==
    /\ pc = "generated" /\ cfg.path_type = "straight"
    /\ cfg.duration >= 1 /\ cfg.hz >= 1

\* The along-track distance of waypoint i of the straight path.
AlongTrack(c, n) ==
    QMul(Q(n), QDiv(QMul(c.speed.base, Q(c.duration)), Q(total_pts(c))))

\* The point d metres from <<lat0, lon0>> along the bearing b.
PointAlong(lat0, lon0, b, d) ==
    <<QAdd(lat0, QDiv(QMul(d, CosDeg(b)), Q(M_PER_DEG_LAT))),
      QAdd(lon0, QDiv(QMul(d, SinDeg(b)),
                      QMul(Q(M_PER_DEG_LAT), CosDeg(lat0))))>>

\* Waypoint i (0-based) of the straight path lies i steps of
\* base_speed * duration / total_samples down the bearing from the start.
OnTrack ==
    /\ Len(path_pts) = total_pts(cfg)
    /\ \A k \in 1..Len(path_pts) :
          <<path_pts[k][1], path_pts[k][2]>>
             = PointAlong(cfg.start_lat, cfg.start_lon, cfg.bearing_deg,
                          AlongTrack(cfg, k - 1))
    /\ <<path_pts[1][1], path_pts[1][2]>> = <<cfg.start_lat, cfg.start_lon>>

\* C14 as stated: on the straight path (duration >= 1, sample_rate >= 1)
\* waypoint i lies i * (base_speed * duration / total_samples) from the
\* start along the bearing, whatever the sine amplitude and period of the
\* speed; waypoint 0 is the start; every waypoint has the same heading,
\* the configured bearing.
C14_StraightHeadingIsBearing ==
    StraightGenerated
       => /\ OnTrack
          /\ \A k \in 1..Len(path_pts) : path_pts[k][3] = cfg.bearing_deg

\* C14 as amended: the same, with the common heading equal to
\* bearing % 360: the bearing itself when 0 <= bearing < 360, and otherwise
\* the bearing moved by a whole multiple of 360 to lie between 0 and 360.
C14_StraightHeadingIsBearingMod360 ==
    StraightGenerated
       => /\ OnTrack
          /\ \A k \in 1..Len(path_pts) :
                /\ path_pts[k][3] = path_pts[1][3]
                /\ IsMod360(path_pts[k][3], cfg.bearing_deg)
                /\ (QLe(Zero, cfg.bearing_deg) /\ QLt(cfg.bearing_deg, Q(360)))
                      => path_pts[k][3] = cfg.bearing_deg

\* C14's case: a straight path of four waypoints that leaves its start
\* (latitude 60), flown on the bearing 370.
C14_Witness ==
    /\ StraightGenerated /\ Len(path_pts) = 4
    /\ cfg.start_lat = Q(60) /\ cfg.bearing_deg = Q(370)
    /\ path_pts[1][1] = cfg.start_lat
    /\ QLt(path_pts[1][1], path_pts[2][1])
    /\ QLt(path_pts[2][1], path_pts[4][1])

\* The 1-based index in path_pts of waypoint j of edge e (both 0-based).
EdgeIndex(e, j) == e * (total_pts(cfg) \div 3) + j + 1

\* Vertex e (0-based) of the triangle, and the vertex its edge ends at.
EdgeStart(e) == TriangleVerts(cfg)[e + 1]
EdgeEnd(e) == TriangleVerts(cfg)[((e + 1) % 3) + 1]

\* Waypoint wp lies at the fraction f of the way from v1 to v2.
Interpolates(wp, v1, v2, f) ==
    /\ wp[1] = QAdd(v1[1], QMul(f, QSub(v2[1], v1[1])))
    /\ wp[2] = QAdd(v1[2], QMul(f, QSub(v2[2], v1[2])))

\* Each edge has its p = total_samples // 3 consecutive waypoints, waypoint
\* j at the fraction j / p, the first at the edge's start vertex, all of
\* them with one heading.
EdgesLaidOut ==
    \A e \in 0..2 : \A j \in 0..((total_pts(cfg) \div 3) - 1) :
       /\ EdgeIndex(e, j) \in 1..Len(path_pts)
       /\ Interpolates(path_pts[EdgeIndex(e, j)], EdgeStart(e), EdgeEnd(e),
                       QNorm(j, total_pts(cfg) \div 3))
       /\ j = 0 => <<path_pts[EdgeIndex(e, j)][1], path_pts[EdgeIndex(e, j)][2]>>
                      = EdgeStart(e)
       /\ path_pts[EdgeIndex(e, j)][3] = path_pts[EdgeIndex(e, 0)][3]

\* No waypoint of an edge lies on the vertex the edge ends at.
EndVertexNotReached ==
    \A e \in 0..2 : \A j \in 0..((total_pts(cfg) \div 3) - 1) :
       <<path_pts[EdgeIndex(e, j)][1], path_pts[EdgeIndex(e, j)][2]>>
          # EdgeEnd(e)

InHalfOpenTurn(x) == QLe(Zero, x) /\ QLt(x, Q(360))

\* C17: in every record, for every path type and every yaw mode, the
\* emitted attitude_head and gimbal_yaw (the values after rounding to one
\* decimal) lie in [0, 360) and are never exactly 360.0.
C17_EmittedAnglesBelow360 ==
    (InOrAfterLoop /\ cfg.hz >= 1)
       => \A k \in 1..Len(entries) :
             /\ InHalfOpenTurn(entries[k].data.attitude_head)
             /\ InHalfOpenTurn(entries[k].data.gimbal_yaw)

\* C18: with a path_type that is none of circle, straight, triangle and
\* hover, generate_entries fails with a lookup error at the path selection,
\* before the clock is read and before any record is built: no fallback
\* path, no partial output.
C18_UnknownPathFailsAtSelection ==
    cfg.path_type \notin {"circle", "straight", "triangle", "hover"}
       => /\ PATHS(cfg).exc = KeyError
          /\ pc \in {"idle", "raised"}
          /\ pc = "raised" => raised = KeyError
          /\ clock_reads = 0 /\ clock = 0 /\ start_time = None
          /\ path_pts = <<>> /\ entries = <<>> /\ results = <<>>

\* C18's case: the call with the path type "zigzag", a positive duration
\* and a positive sample rate has failed.
C18_Witness ==
    /\ cfg.path_type = "zigzag" /\ cfg.duration >= 1 /\ cfg.hz >= 1
    /\ pc = "raised" /\ raised = KeyError

(***************************************************************************)
(* Further claims about the profile evaluators (checked under SpecEval)    *)
(***************************************************************************)
NoClimb == Returned("height") /\ QLe(call.self.climb_rate, Zero)

\* C16: with climb_rate <= 0 the climb takes no time: for every t > 0
\* height(t) is the target altitude, plus the sine ripple when the
\* amplitude is not zero, whatever the start elevation, and never the
\* linear climb; only t <= 0 gives the start elevation.
C16_NoClimbRateJumpsToTarget ==
    NoClimb =>
       /\ QLe(call.t, Zero) => ret = call.self.takeoff_elevation
       /\ (QLt(Zero, call.t) /\ ~Truthy(call.self.sine_amp))
             => ret = call.self.takeoff_altitude
       /\ (QLt(Zero, call.t) /\ Truthy(call.self.sine_amp))
             => ret = QAdd(call.self.takeoff_altitude,
                           QMul(call.self.sine_amp,
                                SinTurns(call.t, call.self.sine_period)))

\* C16's case: a negative climb rate from the elevation 3 to the target 0,
\* with a ripple of amplitude 1 that is at its crest at t = 1.
C16_Witness ==
    /\ NoClimb /\ QLt(call.self.climb_rate, Zero)
    /\ call.t = One
    /\ call.self.takeoff_elevation = Q(3)
    /\ call.self.takeoff_altitude = Zero
    /\ call.self.sine_amp = One
    /\ ret = One

====
